---- MODULE Spec2Model ----
(***************************************************************************)
(* A model of src/src/App.jsx, the ResultsSite component: its React state, *)
(* its event handlers (file load, filter bar, pagination, URL settings,    *)
(* CSV export) and the pure helpers they call.                             *)
(*                                                                         *)
(* Strings are sequences of one-character strings.  JavaScript values are  *)
(* tagged records [t |-> ...], so that a field of unknown shape can be     *)
(* inspected the way the optional chaining of the code inspects it.        *)
(***************************************************************************)
EXTENDS Integers, Sequences, FiniteSets, TLC

VARIABLES raw, samples, metric,
          urlMode, baseUrl, replaceFrom, replaceTo,
          showOnlyWrong, q, page, pageSize,
          loads, lastEvent, csv

appState == <<raw, samples, metric, showOnlyWrong, q, page, pageSize>>
urlState == <<urlMode, baseUrl, replaceFrom, replaceTo>>
vars == <<raw, samples, metric, urlMode, baseUrl, replaceFrom, replaceTo,
          showOnlyWrong, q, page, pageSize, loads, lastEvent, csv>>

(***************************************************************************)
(* Bounds of the model.                                                    *)
(***************************************************************************)
\* file loads started in one behaviour (each stays recorded once completed)
MaxLoads == 2
\* records of the large results file (more than two pages of the smallest size)
BigN == 21
\* pieces concatenated into an input of the sanitizer
MaxPieces == 3
\* lines of a generated JSON-Lines text
MaxLines == 3

(***************************************************************************)
(* Sequence helpers.                                                       *)
(***************************************************************************)
RECURSIVE Flatten(_)
Flatten(ss) == IF ss = <<>> THEN <<>> ELSE Head(ss) \o Flatten(Tail(ss))

RECURSIVE Join(_, _)
\* Array.prototype.join
Join(ss, sep) ==
  IF ss = <<>> THEN <<>>
  ELSE IF Len(ss) = 1 THEN ss[1]
  ELSE ss[1] \o sep \o Join(Tail(ss), sep)

Drop(s, n) == SubSeq(s, n + 1, Len(s))
Take(s, n) == SubSeq(s, 1, n)

\* String.prototype.indexOf: zero-based position of the first occurrence, or -1
IndexOf(s, pat) ==
  LET hits == {i \in 0..(Len(s) - Len(pat)) : SubSeq(s, i + 1, i + Len(pat)) = pat}
  IN IF hits = {} THEN -1 ELSE CHOOSE i \in hits : \A j \in hits : i <= j

\* String.prototype.lastIndexOf for a one-character pattern, or -1
LastIndexOfChar(s, c) ==
  LET hits == {i \in 0..(Len(s) - 1) : s[i + 1] = c}
  IN IF hits = {} THEN -1 ELSE CHOOSE i \in hits : \A j \in hits : j <= i

Includes(s, pat) == IndexOf(s, pat) >= 0

RECURSIVE ReplaceAllStr(_, _, _)
\* String.prototype.replaceAll with a literal, non-empty pattern
ReplaceAllStr(s, pat, rep) ==
  LET i == IndexOf(s, pat)
  IN IF i < 0 THEN s
     ELSE Take(s, i) \o rep \o ReplaceAllStr(Drop(s, i + Len(pat)), pat, rep)

\* String.prototype.replace with a literal pattern: the first occurrence only
ReplaceFirstStr(s, pat, rep) ==
  LET i == IndexOf(s, pat)
  IN IF i < 0 THEN s ELSE Take(s, i) \o rep \o Drop(s, i + Len(pat))

WhiteSpace == {" ", "\n", "\r", "\t"}

RECURSIVE TrimStart(_)
TrimStart(s) ==
  IF s # <<>> /\ Head(s) \in WhiteSpace THEN TrimStart(Tail(s)) ELSE s

RECURSIVE TrimEnd(_)
TrimEnd(s) ==
  IF s # <<>> /\ s[Len(s)] \in WhiteSpace THEN TrimEnd(Take(s, Len(s) - 1)) ELSE s

\* String.prototype.trim
Trim(s) == TrimEnd(TrimStart(s))

LowerChar(c) ==
  CASE c = "A" -> "a"
    [] c = "B" -> "b"
    [] c = "C" -> "c"
    [] OTHER -> c

\* String.prototype.toLowerCase over the alphabet of the model
ToLowerCase(s) == [i \in 1..Len(s) |-> LowerChar(s[i])]

Digit(d) == <<"0", "1", "2", "3", "4", "5", "6", "7", "8", "9">>[d + 1]

RECURSIVE NatToStr(_)
NatToStr(n) == IF n < 10 THEN <<Digit(n)>> ELSE NatToStr(n \div 10) \o <<Digit(n % 10)>>

\* String(n) for an integer
IntToStr(n) == IF n < 0 THEN <<"-">> \o NatToStr(-n) ELSE NatToStr(n)

(***************************************************************************)
(* JavaScript values.                                                      *)
(***************************************************************************)
Undefined == [t |-> "undefined"]
JNull == [t |-> "null"]
JBool(b) == [t |-> "bool", b |-> b]
JNum(n) == [t |-> "num", n |-> n]
JStr(s) == [t |-> "str", s |-> s]
JArr(items) == [t |-> "arr", items |-> items]
JObj(f) == [t |-> "obj", f |-> f]
EmptyObj == JObj(<<>>)

\* v?.k
Get(v, k) ==
  IF v.t = "obj" THEN (IF k \in DOMAIN v.f THEN v.f[k] ELSE Undefined)
  ELSE IF k = "length" /\ v.t = "str" THEN JNum(Len(v.s))
  ELSE IF k = "length" /\ v.t = "arr" THEN JNum(Len(v.items))
  ELSE Undefined

\* v?.[i]
At(v, i) ==
  IF v.t = "arr" /\ i < Len(v.items) THEN v.items[i + 1]
  ELSE IF v.t = "str" /\ i < Len(v.s) THEN JStr(<<v.s[i + 1]>>)
  ELSE Undefined

\* a ?? b
Nullish(a, b) == IF a.t \in {"null", "undefined"} THEN b ELSE a

\* !!v
Truthy(v) ==
  CASE v.t = "bool" -> v.b
    [] v.t = "num" -> v.n # 0
    [] v.t = "str" -> v.s # <<>>
    [] v.t \in {"null", "undefined"} -> FALSE
    [] OTHER -> TRUE

\* a || b
OrElse(a, b) == IF Truthy(a) THEN a ELSE b

\* String(v) for the values that reach the CSV
JsString(v) ==
  CASE v.t = "str" -> v.s
    [] v.t = "num" -> IntToStr(v.n)
    [] v.t = "bool" -> (IF v.b THEN <<"t", "r", "u", "e">> ELSE <<"f", "a", "l", "s", "e">>)
    [] v.t = "null" -> <<"n", "u", "l", "l">>
    [] OTHER -> <<"u", "n", "d", "e", "f", "i", "n", "e", "d">>

(***************************************************************************)
(* stripThinking (App.jsx 136-145).                                        *)
(***************************************************************************)
ThinkOpen == <<"<", "t", "h", "i", "n", "k", ">">>
ThinkClose == <<"<", "/", "t", "h", "i", "n", "k", ">">>

RECURSIVE RemoveThinkSpans(_)
\* out.replace(/<think>[\s\S]*?<\/think>/g, ""): leftmost, non-greedy, and the
\* scan resumes after each removed span (the joined text is not scanned again)
RemoveThinkSpans(s) ==
  LET i == IndexOf(s, ThinkOpen)
      rest == Drop(s, i + Len(ThinkOpen))
      j == IndexOf(rest, ThinkClose)
  IN IF i < 0 THEN s
     ELSE IF j < 0 THEN s
     ELSE Take(s, i) \o RemoveThinkSpans(Drop(rest, j + Len(ThinkClose)))

\* stripThinking, on a JavaScript value; the result is a string
stripThinking(v) ==
  IF ~Truthy(v) \/ v.t # "str" THEN <<>>
  ELSE LET s == v.s
           endTagIdx == IndexOf(s, ThinkClose)
           out == IF endTagIdx >= 0 THEN Drop(s, endTagIdx + Len(ThinkClose)) ELSE s
       IN Trim(RemoveThinkSpans(out))

(***************************************************************************)
(* normalizeOne, normalizeResults (App.jsx 92-133).  The records of the    *)
(* model keep to the RawResult shape where the code would otherwise raise: *)
(* audios is absent or an array, and texts are absent or strings.          *)
(***************************************************************************)
RECURSIVE audioPathsOf(_)
\* (r?.audios || []).map((a) => a?.audio_filepath).filter(Boolean), on the array's items
audioPathsOf(items) ==
  IF items = <<>> THEN <<>>
  ELSE LET a == Get(Head(items), "audio_filepath")
       IN (IF Truthy(a) THEN <<a>> ELSE <<>>) \o audioPathsOf(Tail(items))

\* r?.index ?? i
indexOfRecordOrPosition(r, i) == OrElse(Get(r, "index"), JNum(i))
indexOfRecord(r, i) == Nullish(Get(r, "index"), JNum(i))

normalizeOne(r, i) ==
  [index |-> indexOfRecord(r, i),
   audioPaths |-> audioPathsOf(OrElse(Get(r, "audios"), JArr(<<>>)).items),
   prompt |-> Nullish(Get(At(Get(r, "messages"), 0), "content"), JStr(<<>>)),
   prediction |-> Nullish(Get(r, "prediction"), Nullish(Get(r, "response"), JStr(<<>>))),
   label |-> Nullish(Get(r, "label"), Nullish(Get(r, "target"), JStr(<<>>))),
   correct |-> Truthy(Get(r, "correct")),
   length |-> Nullish(Get(r, "length"), JNull)]

\* results.map((r, i) => normalizeOne(r, i))
normalizeAll(items) == [k \in 1..Len(items) |-> normalizeOne(items[k], k - 1)]

\* the metric object built from the top-level fields of a results object
metricOf(parsed) ==
  JObj([metric |-> Nullish(Get(parsed, "metric"), JStr(<<>>)),
        accuracy_by_sample |-> Nullish(Get(parsed, "accuracy_by_sample"), JNull),
        avg_accuracy_by_category |-> Nullish(Get(parsed, "avg_accuracy_by_category"), JNull),
        categories_accuracy |-> Nullish(Get(parsed, "categories_accuracy"), JNull),
        config |-> Nullish(Get(parsed, "config"), JNull)])

normalizeResults(parsed) ==
  IF Truthy(parsed) /\ parsed.t = "obj"
  THEN LET results == IF Get(parsed, "results").t = "arr"
                      THEN Get(parsed, "results").items ELSE <<>>
       IN [samples |-> normalizeAll(results), metric |-> metricOf(parsed)]
  ELSE IF parsed.t = "arr"
  THEN [samples |-> normalizeAll(parsed.items), metric |-> EmptyObj]
  ELSE [samples |-> <<>>, metric |-> EmptyObj]

(***************************************************************************)
(* The text of a file, and its parse (App.jsx 65-83).  A text is the       *)
(* sequence of its lines.  A line is blank (white space only), holds one   *)
(* complete JSON value, is the first or the last half of a JSON document   *)
(* printed over two lines, or is no JSON at all.                           *)
(***************************************************************************)
BlankLine == [k |-> "blank"]
JunkLine == [k |-> "junk"]
JsonLine(v) == [k |-> "json", v |-> v]
OpenLine(v) == [k |-> "open", v |-> v]
CloseLine == [k |-> "close"]

IsNonBlank(line) == line.k # "blank"

\* text.split(/\r?\n/).map((s) => s.trim()).filter(Boolean)
nonBlankLines(text) == SelectSeq(text, IsNonBlank)

\* JSON.parse(text): white space around the one document is allowed
JSONParseText(text) ==
  LET nb == nonBlankLines(text)
  IN IF Len(nb) = 1 /\ nb[1].k = "json" THEN [ok |-> TRUE, v |-> nb[1].v]
     ELSE IF Len(nb) = 2 /\ nb[1].k = "open" /\ nb[2].k = "close"
     THEN [ok |-> TRUE, v |-> nb[1].v]
     ELSE [ok |-> FALSE, v |-> Undefined]

\* lines.map((line) => JSON.parse(line)): raises when one line is no JSON
JSONParseLines(lines) ==
  IF \A k \in 1..Len(lines) : lines[k].k = "json"
  THEN [ok |-> TRUE, v |-> JArr([k \in 1..Len(lines) |-> lines[k].v])]
  ELSE [ok |-> FALSE, v |-> Undefined]

\* the try / catch / try of onFileChange: parsed, or the parse error
parseFile(text) ==
  IF JSONParseText(text).ok THEN JSONParseText(text)
  ELSE JSONParseLines(nonBlankLines(text))

(***************************************************************************)
(* audioUrl, joinUrl, inferBaseUrl (App.jsx 36-47, 147-161).               *)
(***************************************************************************)
Slash == <<"/">>

EndsWithSlash(s) == s # <<>> /\ s[Len(s)] = "/"

\* p.split("/").pop()
basename(p) == Drop(p, LastIndexOfChar(p, "/") + 1)

joinUrl(base, path) ==
  IF base = <<>> THEN path
  ELSE (IF EndsWithSlash(base) THEN base ELSE base \o Slash) \o path

\* urlBase is the BASE_URL / PUBLIC_URL of the build, <<>> when unset
inferBaseUrl(urlBase) ==
  LET base == IF urlBase # <<>> THEN urlBase ELSE Slash
      b == IF EndsWithSlash(base) THEN base ELSE base \o Slash
  IN b \o <<"a", "u", "d", "i", "o", "/">>

\* audioUrl(p) for a path value p (null when the sample has no audio)
audioUrl(p) ==
  IF ~Truthy(p) THEN <<>>
  ELSE IF urlMode = "basename" THEN joinUrl(baseUrl, basename(p.s))
  ELSE ReplaceFirstStr(p.s, replaceFrom, replaceTo)

(***************************************************************************)
(* filtered, totalPages, pageRows (App.jsx 163-180).                       *)
(***************************************************************************)
IsWrong(s) == ~s.correct

\* (s.prompt || "")
promptText(s) == OrElse(s.prompt, JStr(<<>>)).s

matchesQuery(s) ==
  LET qq == ToLowerCase(Trim(q))
  IN \/ Includes(ToLowerCase(promptText(s)), qq)
     \/ Includes(ToLowerCase(stripThinking(s.prediction)), qq)
     \/ Includes(ToLowerCase(stripThinking(s.label)), qq)

filtered ==
  LET list1 == IF showOnlyWrong THEN SelectSeq(samples, IsWrong) ELSE samples
  IN IF Trim(q) # <<>> THEN SelectSeq(list1, matchesQuery) ELSE list1

Max(a, b) == IF a >= b THEN a ELSE b
Min(a, b) == IF a <= b THEN a ELSE b
CeilDiv(a, b) == (a + b - 1) \div b

totalPages == Max(1, CeilDiv(Len(filtered), pageSize))
pageStart == (page - 1) * pageSize
pageEnd == Min(Len(filtered), pageStart + pageSize)
\* filtered.slice(pageStart, pageEnd)
pageRows == IF pageStart < pageEnd THEN SubSeq(filtered, pageStart + 1, pageEnd) ELSE <<>>

(***************************************************************************)
(* exportWrongCSV, jsonSafe (App.jsx 182-209).                             *)
(***************************************************************************)
Quote == <<"\"">>
Comma == <<",">>
NewLine == <<"\n">>
BackslashN == <<"\\", "n">>

\* String(s).replaceAll("\n", "\\n")
jsonSafe(s) == ReplaceAllStr(s, NewLine, BackslashN)

\* x.replaceAll('"', '"'): as written, a quote is replaced by one quote
escapeQuotes(s) == ReplaceAllStr(s, Quote, Quote)

\* the first audio path of a sample, (s.audioPaths?.[0] || "")
firstAudio(s) == OrElse(At(JArr(s.audioPaths), 0), JStr(<<>>)).s

\* the five values of a row, before the quoting of line 193
csvRowValues(s) ==
  <<JsString(s.index),
    escapeQuotes(firstAudio(s)),
    jsonSafe(stripThinking(s.prompt)),
    jsonSafe(stripThinking(s.prediction)),
    jsonSafe(stripThinking(s.label))>>

\* `"${String(x).replaceAll('"', '"')}"`
csvField(x) == Quote \o escapeQuotes(x) \o Quote

csvLine(s) == Join([k \in 1..5 |-> csvField(csvRowValues(s)[k])], Comma)

csvHeader == <<"i", "n", "d", "e", "x", ",", "a", "u", "d", "i", "o", ",",
               "p", "r", "o", "m", "p", "t", ",",
               "p", "r", "e", "d", "i", "c", "t", "i", "o", "n", ",",
               "l", "a", "b", "e", "l">>

csvOf(ss) ==
  LET wrong == SelectSeq(ss, IsWrong)
  IN Join(<<csvHeader>> \o [k \in 1..Len(wrong) |-> csvLine(wrong[k])], NewLine)

(***************************************************************************)
(* The inputs of the model: the values the user can type or select, and    *)
(* the files the user can pick.                                            *)
(***************************************************************************)
\* the options of the page-size select (App.jsx 313)
PageSizes == {10, 20, 50, 100}

QueryInputs == {<<>>, <<" ", "A">>}

\* the k-th record of the large file: no explicit index, every third one wrong
bigRecord(k) ==
  JObj([prediction |-> JStr(IF k % 2 = 0 THEN <<"a">> ELSE <<"b">>),
        correct |-> JBool(k % 3 # 0)])

BigText == [k \in 1..BigN |-> JsonLine(bigRecord(k))]

SmallText ==
  <<JsonLine(JObj([index |-> JNum(7), response |-> JStr(<<"a">>), correct |-> JBool(FALSE)])),
    BlankLine,
    JsonLine(JObj([index |-> JNum(0), prediction |-> JStr(<<"b">>), correct |-> JBool(TRUE)]))>>

WrappedText ==
  <<OpenLine(JObj([results |-> JArr(<<bigRecord(1), bigRecord(3), bigRecord(5)>>),
                   metric |-> JStr(<<"a", "c", "c">>),
                   accuracy_by_sample |-> JNum(1)])),
    CloseLine>>

JunkText == <<JsonLine(bigRecord(1)), JunkLine>>

UiTexts == {BigText, SmallText, WrappedText, JunkText}

(***************************************************************************)
(* The state after construction (App.jsx 20-53).                           *)
(***************************************************************************)
initialMetric ==
  JObj([metric |-> JStr(<<>>), accuracy_by_sample |-> JNull,
        avg_accuracy_by_category |-> JNull, categories_accuracy |-> JNull,
        config |-> JNull])

defaultReplaceFrom ==
  <<"/", "w", "o", "r", "k", "/", "v", "o", "i", "d", "f", "u", "l", "2", "n", "l", "p",
    "/", "d", "a", "t", "a", "/">>

Event(name) == [name |-> name, pageBefore |-> page]

InitApp(urlBase) ==
  /\ raw = JNull
  /\ samples = <<>>
  /\ metric = initialMetric
  /\ urlMode = "basename"
  /\ baseUrl = inferBaseUrl(urlBase)
  /\ replaceFrom = defaultReplaceFrom
  /\ replaceTo = inferBaseUrl(urlBase)
  /\ showOnlyWrong = FALSE
  /\ q = <<>>
  /\ page = 1
  /\ pageSize = 10
  /\ csv = <<>>

Init ==
  /\ InitApp(<<>>)
  /\ loads = <<>>
  /\ lastEvent = [name |-> "init", pageBefore |-> 1]

(***************************************************************************)
(* onFileChange (App.jsx 62-90).  A load is recorded in loads when the     *)
(* file is picked (the handler runs to its await), and resumes, in any     *)
(* order with the other loads, when its read completes.  doneAt is 0 while *)
(* the read is pending and then the rank of its completion.                *)
(***************************************************************************)
Pending(i) == i \in 1..Len(loads) /\ loads[i].doneAt = 0
NumDone == Cardinality({i \in 1..Len(loads) : loads[i].doneAt # 0})

\* the picker is closed without a file: if (!file) return
onFileChangeNoFile ==
  /\ lastEvent' = Event("noFile")
  /\ UNCHANGED <<appState, urlState, loads, csv>>

\* a file is picked: const text = await file.text()
onFileChangeStart(text) ==
  /\ Len(loads) < MaxLoads
  /\ loads' = Append(loads, [text |-> text, doneAt |-> 0])
  /\ lastEvent' = Event("pick")
  /\ UNCHANGED <<appState, urlState, csv>>

resetViewKeepPage ==
  /\ showOnlyWrong' = FALSE
  /\ q' = <<>>
  /\ page' = page

resetView ==
  /\ showOnlyWrong' = FALSE
  /\ q' = <<>>
  /\ page' = 1

\* the catch of the second parse: alert(...); return
onParseErrorClears ==
  /\ raw' = JNull
  /\ samples' = <<>>
  /\ UNCHANGED <<metric, showOnlyWrong, q, page, pageSize>>

onParseError == UNCHANGED appState

\* lines 85-89, for the parsed value
onParsedUnlessSuperseded(i, parsed) ==
  IF \E j \in (i + 1)..Len(loads) : TRUE
  THEN UNCHANGED appState
  ELSE /\ raw' = parsed
       /\ samples' = normalizeResults(parsed).samples
       /\ metric' = normalizeResults(parsed).metric
       /\ resetView
       /\ pageSize' = pageSize

onParsed(i, parsed) ==
  /\ raw' = parsed
  /\ samples' = normalizeResults(parsed).samples
  /\ metric' = normalizeResults(parsed).metric
  /\ resetView
  /\ pageSize' = pageSize

\* the read of load i completes and the handler runs to its end
onFileChangeResume(i) ==
  /\ Pending(i)
  /\ loads' = [loads EXCEPT ![i].doneAt = NumDone + 1]
  /\ IF parseFile(loads[i].text).ok
     THEN /\ onParsed(i, parseFile(loads[i].text).v)
          /\ lastEvent' = Event("loaded")
     ELSE /\ onParseError
          /\ lastEvent' = Event("alert")
  /\ UNCHANGED <<urlState, csv>>

(***************************************************************************)
(* The filter bar and the page buttons (App.jsx 298-320).                  *)
(***************************************************************************)
setPageOneForgotten == page' = page
setPageOne == page' = 1

onQueryChange(v) ==
  /\ q' = v
  /\ setPageOne
  /\ lastEvent' = Event("query")
  /\ UNCHANGED <<raw, samples, metric, showOnlyWrong, pageSize, urlState, loads, csv>>

onOnlyWrongChange(checked) ==
  /\ showOnlyWrong' = checked
  /\ setPageOne
  /\ lastEvent' = Event("onlyWrong")
  /\ UNCHANGED <<raw, samples, metric, q, pageSize, urlState, loads, csv>>

onPageSizeChange(n) ==
  /\ pageSize' = n
  /\ setPageOne
  /\ lastEvent' = Event("pageSize")
  /\ UNCHANGED <<raw, samples, metric, showOnlyWrong, q, urlState, loads, csv>>

\* disabled={page <= 1}; setPage((p) => Math.max(1, p - 1))
onPrevPage ==
  /\ ~(page <= 1)
  /\ page' = Max(1, page - 1)
  /\ lastEvent' = Event("prev")
  /\ UNCHANGED <<raw, samples, metric, showOnlyWrong, q, pageSize, urlState, loads, csv>>

\* disabled={page >= totalPages}; setPage((p) => Math.min(totalPages, p + 1))
onNextPage ==
  /\ ~(page >= totalPages)
  /\ page' = Min(totalPages, page + 1)
  /\ lastEvent' = Event("next")
  /\ UNCHANGED <<raw, samples, metric, showOnlyWrong, q, pageSize, urlState, loads, csv>>

\* the radio buttons and text inputs of the URL settings (App.jsx 241-262)
onUrlModeChange(mode) ==
  /\ urlMode' = mode
  /\ lastEvent' = Event("urlMode")
  /\ UNCHANGED <<appState, baseUrl, replaceFrom, replaceTo, loads, csv>>

onBaseUrlChange(v) ==
  /\ baseUrl' = v
  /\ lastEvent' = Event("baseUrl")
  /\ UNCHANGED <<appState, urlMode, replaceFrom, replaceTo, loads, csv>>

onReplaceFromChange(v) ==
  /\ replaceFrom' = v
  /\ lastEvent' = Event("replaceFrom")
  /\ UNCHANGED <<appState, urlMode, baseUrl, replaceTo, loads, csv>>

onReplaceToChange(v) ==
  /\ replaceTo' = v
  /\ lastEvent' = Event("replaceTo")
  /\ UNCHANGED <<appState, urlMode, baseUrl, replaceFrom, loads, csv>>

\* the export button, disabled={!samples.length}; csv is the text downloaded
exportWrongCSV ==
  /\ samples # <<>>
  /\ csv' = csvOf(samples)
  /\ lastEvent' = Event("export")
  /\ UNCHANGED <<appState, urlState, loads>>

Next ==
  \/ onFileChangeNoFile
  \/ \E text \in UiTexts : onFileChangeStart(text)
  \/ \E i \in 1..Len(loads) : onFileChangeResume(i)
  \/ \E v \in QueryInputs : onQueryChange(v)
  \/ \E checked \in BOOLEAN : onOnlyWrongChange(checked)
  \/ \E n \in PageSizes : onPageSizeChange(n)
  \/ onPrevPage
  \/ onNextPage

Spec == Init /\ [][Next]_vars

(***************************************************************************)
(* Properties of the filter bar, the pagination and the file load.         *)
(***************************************************************************)
FilterEvents == {"query", "onlyWrong", "pageSize"}

\* C5: right after a change of the query, of the only-wrong flag or of the page
\* size the page is 1, whatever it was before; right after a successful load
\* the page is 1, the query is empty and the only-wrong flag is off.
C5_PageResetAfterFilterChange ==
  /\ lastEvent.name \in FilterEvents => page = 1
  /\ lastEvent.name = "loaded" => (page = 1 /\ q = <<>> /\ ~showOnlyWrong)

\* a filter change made on a later page, and a load that ended a search
C5_Witness_ResetFromLaterPage ==
  lastEvent.name = "pageSize" /\ lastEvent.pageBefore = 3 /\ page = 1 /\ pageSize = 20

\* a text that is neither one JSON document nor JSON-Lines
NeitherJsonNorJsonLines(text) ==
  ~JSONParseText(text).ok /\ ~JSONParseLines(nonBlankLines(text)).ok

\* C6: the step in which the read of an unparseable file completes reports the
\* error and leaves raw, samples, metric, query, only-wrong flag, page and
\* page size as they were.
C6_FailedLoadKeepsState ==
  [][\A i \in 1..Len(loads) :
       (Pending(i) /\ loads'[i].doneAt # 0 /\ NeitherJsonNorJsonLines(loads[i].text))
       => (UNCHANGED appState /\ lastEvent'.name = "alert")]_vars

\* an unparseable file was reported while loaded samples were shown on page 2
\* under a changed page size
C6_Witness_AlertOverLoadedState ==
  /\ lastEvent.name = "alert"
  /\ Len(samples) = BigN
  /\ page = 2
  /\ pageSize = 20

AllDone == \A i \in 1..Len(loads) : loads[i].doneAt # 0
Parses(i) == parseFile(loads[i].text).ok
ShowsLoad(i) ==
  LET parsed == parseFile(loads[i].text).v
  IN /\ raw = parsed
     /\ samples = normalizeResults(parsed).samples
     /\ metric = normalizeResults(parsed).metric

\* C9 as claimed: once two parseable loads have both completed, the state is
\* that of the one started later.
C9_LaterStartedLoadWins ==
  (Len(loads) = 2 /\ AllDone /\ Parses(1) /\ Parses(2)) => ShowsLoad(2)

\* C9 as amended: the state is that of the parseable load whose read completed
\* last, whichever was started first.
C9_LastCompletedLoadWins ==
  \A i \in 1..Len(loads) :
    (/\ loads[i].doneAt # 0
     /\ Parses(i)
     /\ \A j \in 1..Len(loads) : Parses(j) => loads[j].doneAt <= loads[i].doneAt)
    => ShowsLoad(i)

\* two different parseable files, the one started first read last
C9_Witness_EarlierLoadReadLast ==
  /\ Len(loads) >= 2
  /\ Parses(1) /\ Parses(2)
  /\ loads[2].doneAt = 1 /\ loads[1].doneAt = 2
  /\ parseFile(loads[1].text).v # parseFile(loads[2].text).v
  /\ ShowsLoad(1)

\* C10: in every reachable state 1 <= page <= totalPages, and the visible window
\* is non-empty whenever the filtered list is.
C10_PageWithinTotalPages ==
  /\ 1 <= page
  /\ page <= totalPages
  /\ (filtered # <<>> => pageRows # <<>>)

\* a file of one page was loaded while page 3 of a larger one was shown
C10_Witness_SmallLoadFromPageThree ==
  /\ lastEvent.name = "loaded"
  /\ lastEvent.pageBefore = 3
  /\ totalPages = 1
  /\ filtered # <<>>

(***************************************************************************)
(* The load of one file, over generated texts: every text of at most       *)
(* MaxLines lines, and the one-document files.  The first state is the one *)
(* reached from construction by picking the file.                          *)
(***************************************************************************)
SeqsUpTo(S, n) == UNION {[1..k -> S] : k \in 0..n}

\* index 0 given explicitly, prediction under its first name
recordA ==
  JObj([index |-> JNum(0), prediction |-> JStr(<<"a">>), correct |-> JBool(FALSE)])
\* no index, prediction under its second name
recordB ==
  JObj([response |-> JStr(<<"b">>), label |-> JStr(<<"b">>), correct |-> JBool(TRUE)])

LoadLines == {BlankLine, JunkLine, JsonLine(recordA), JsonLine(recordB), JsonLine(JNum(5))}

DocValues ==
  {JNull, JNum(0), JBool(TRUE), JStr(<<"a">>),
   JArr(<<>>), JArr(<<recordB, recordA>>),
   JObj([results |-> JArr(<<recordB, recordA, recordB>>), metric |-> JStr(<<"a", "c", "c">>)]),
   JObj([results |-> JArr(<<recordA>>)]),
   JObj([results |-> JStr(<<"a">>)]),
   JObj([metric |-> JStr(<<"a", "c", "c">>), accuracy_by_sample |-> JNum(1)])}

LoadTexts ==
  SeqsUpTo(LoadLines, MaxLines)
    \cup {<<JsonLine(v)>> : v \in DocValues}
    \cup {<<OpenLine(v), BlankLine, CloseLine>> : v \in DocValues}
    \cup {<<OpenLine(v)>> : v \in DocValues}

PickedFrom(texts, urlBases) ==
  /\ \E urlBase \in urlBases : InitApp(urlBase)
  /\ \E text \in texts : loads = <<[text |-> text, doneAt |-> 0]>>
  /\ lastEvent = [name |-> "pick", pageBefore |-> 1]

InitLoad == PickedFrom(LoadTexts, {<<>>})

NextLoad == \E i \in 1..Len(loads) : onFileChangeResume(i)

SpecLoad == InitLoad /\ [][NextLoad]_vars

Loaded == lastEvent.name = "loaded"

RawResultFields ==
  {"index", "audios", "messages", "prediction", "response", "label", "target",
   "correct", "length"}

IsRecord(v) == v.t = "obj" /\ DOMAIN v.f \subseteq RawResultFields

\* the text is JSON-Lines: at least one non-blank line, each one a RawResult object
IsJsonLinesOfRecords(text) ==
  /\ nonBlankLines(text) # <<>>
  /\ \A k \in 1..Len(nonBlankLines(text)) :
       nonBlankLines(text)[k].k = "json" /\ IsRecord(nonBlankLines(text)[k].v)

\* C1: a loaded JSON-Lines file of n >= 1 records yields n samples, the i-th
\* from the i-th non-blank line; n = 1 included.
C1_JsonLinesYieldsOneSamplePerLine ==
  (Loaded /\ IsJsonLinesOfRecords(loads[1].text))
  => LET lines == nonBlankLines(loads[1].text)
     IN /\ Len(samples) = Len(lines)
        /\ \A k \in 1..Len(lines) : samples[k] = normalizeOne(lines[k].v, k - 1)

HasResultsArray(v) == v.t = "obj" /\ Get(v, "results").t = "arr"
RawResultsOf(v) == IF v.t = "arr" THEN v.items ELSE Get(v, "results").items
HasIndex(r) == r.t = "obj" /\ "index" \in DOMAIN r.f

\* one sample per record, in order; the index is the record's own when it has
\* one and its zero-based position otherwise
OneSamplePerRecord(items) ==
  /\ Len(samples) = Len(items)
  /\ \A k \in 1..Len(items) :
       /\ samples[k].index = (IF HasIndex(items[k]) THEN items[k].f.index ELSE JNum(k - 1))
       /\ samples[k].correct = Truthy(Get(items[k], "correct"))
       /\ HasIndex(items[k]) => samples[k].prediction = items[k].f.prediction

\* nothing of a metrics summary is present
MetricsEmpty(m) ==
  \A k \in DOMAIN m.f : m.f[k] \in {JNull, JStr(<<>>)}

\* C7 as claimed: an array, or an object whose results is an array, gives one
\* sample per record in order with the index rule; every other input gives no
\* samples and empty metrics.
C7_NormalizerShapes ==
  Loaded =>
    IF raw.t = "arr" \/ HasResultsArray(raw)
    THEN OneSamplePerRecord(RawResultsOf(raw))
    ELSE samples = <<>> /\ MetricsEmpty(metric)

\* C7 as amended: of the other inputs, those that are no object (null, scalar,
\* string) give no samples and empty metrics; an object whose results is not
\* an array gives no samples and the metrics of its own top-level fields.
C7_NormalizerShapesAmended ==
  Loaded =>
    IF raw.t = "arr" \/ HasResultsArray(raw)
    THEN OneSamplePerRecord(RawResultsOf(raw))
    ELSE IF raw.t = "obj"
    THEN /\ samples = <<>>
         /\ \A k \in DOMAIN metric.f :
              metric.f[k] = (IF k \in DOMAIN raw.f THEN raw.f[k]
                             ELSE IF k = "metric" THEN JStr(<<>>) ELSE JNull)
    ELSE samples = <<>> /\ metric = EmptyObj

\* a results object was loaded whose second record gives index 0 and whose
\* other records give none
C7_Witness_ExplicitAndPositionalIndex ==
  /\ Loaded
  /\ HasResultsArray(raw)
  /\ Len(samples) = 3
  /\ samples[2].index = JNum(0)
  /\ samples[3].index = JNum(2)

(***************************************************************************)
(* The sanitizer, over the texts built from at most MaxPieces pieces, each *)
(* loaded as the prediction of a one-record file and shown.                *)
(***************************************************************************)
StripPieces == {ThinkOpen, ThinkClose, <<"a">>, <<" ">>, <<"\n">>}

StripInputs == {Flatten(ps) : ps \in SeqsUpTo(StripPieces, MaxPieces)}

StripTexts ==
  {<<JsonLine(JArr(<<JObj([prediction |-> JStr(s)])>>))>> : s \in StripInputs}

InitStrip == PickedFrom(StripTexts, {<<>>})

SpecStrip == InitStrip /\ [][NextLoad]_vars

\* C2: the sanitizer applied to its own output gives that output again, which
\* holds no closing marker and no matched <think>...</think> span.
C2_SanitizerIdempotent ==
  \A k \in 1..Len(samples) :
    LET once == stripThinking(samples[k].prediction)
    IN /\ stripThinking(JStr(once)) = once
       /\ ~Includes(once, ThinkClose)
       /\ RemoveThinkSpans(once) = once

(***************************************************************************)
(* The URL settings, over a file whose samples have the shapes of path     *)
(* the resolver distinguishes.                                             *)
(***************************************************************************)
audioRecord(path) == JObj([audios |-> JArr(<<JObj([audio_filepath |-> JStr(path)])>>)])

UrlText ==
  <<JsonLine(JArr(<<audioRecord(<<"/", "d", "/", "x", ".", "w">>),
                    audioRecord(<<"x", ".", "w">>),
                    audioRecord(<<"/", "d", "/">>),
                    audioRecord(<<>>),
                    JObj([audios |-> JArr(<<JObj(<<>>)>>)]),
                    JObj([correct |-> JBool(TRUE)])>>))>>

\* PUBLIC_URL / BASE_URL of the build: unset, or a sub-path
UrlBases == {<<>>, <<"/", "r">>}

BaseUrlInputs ==
  {<<>>, <<"/">>, <<"/", "a">>, <<"/", "a", "/">>, <<"/", "a", "/", "/">>,
   <<"h", ":", "/", "/", "c">>}

ReplaceInputs == {<<>>, <<"/", "d", "/">>, <<"x">>}

InitUrl == PickedFrom({UrlText}, UrlBases)

NextUrl ==
  \/ \E i \in 1..Len(loads) : onFileChangeResume(i)
  \/ \E mode \in {"basename", "replace"} : onUrlModeChange(mode)
  \/ \E v \in BaseUrlInputs : onBaseUrlChange(v)
  \/ \E v \in ReplaceInputs : onReplaceFromChange(v)
  \/ \E v \in ReplaceInputs : onReplaceToChange(v)

SpecUrl == InitUrl /\ [][NextUrl]_vars

\* the path handed to audioUrl for a row (App.jsx 343): its first path, or null
renderedPath(s) == IF Len(s.audioPaths) # 0 THEN s.audioPaths[1] ELSE JNull

RECURSIVE StripTrailingSlashes(_)
StripTrailingSlashes(b) ==
  IF EndsWithSlash(b) THEN StripTrailingSlashes(Take(b, Len(b) - 1)) ELSE b

\* b made to end with exactly one '/'
WithOneSlash(b) == StripTrailingSlashes(b) \o Slash

\* the part of p after its last '/': the longest suffix without a '/'
AfterLastSlash(p) ==
  LET ks == {k \in 0..Len(p) : \A j \in (k + 1)..Len(p) : p[j] # "/"}
  IN Drop(p, CHOOSE k \in ks : \A j \in ks : k <= j)

\* C8: in basename mode the URL of a non-empty path is the base URL made to end
\* with exactly one '/' followed by the part of the path after its last '/';
\* an absent path gives the empty URL in both modes.
C8_BasenameUrl ==
  \A k \in 1..Len(pageRows) :
    LET p == renderedPath(pageRows[k])
    IN IF ~Truthy(p) THEN audioUrl(p) = <<>>
       ELSE urlMode = "basename"
            => audioUrl(p) = WithOneSlash(baseUrl) \o AfterLastSlash(p.s)

(***************************************************************************)
(* The export, over files of one or two records whose fields hold quotes   *)
(* and newlines.                                                           *)
(***************************************************************************)
CsvStrings == {<<"a">>, <<"\"">>, <<"a", "\n", "b">>}

csvRecord(text, path, correct) ==
  JObj([index |-> JNum(12),
        audios |-> JArr(<<JObj([audio_filepath |-> JStr(path)])>>),
        messages |-> JArr(<<JObj([content |-> JStr(text)])>>),
        prediction |-> JStr(text),
        target |-> JStr(text),
        correct |-> JBool(correct)])

CsvRecords == {csvRecord(text, path, c) : text \in CsvStrings, path \in CsvStrings, c \in BOOLEAN}

CsvTexts ==
  {<<JsonLine(JArr(<<r>>))>> : r \in CsvRecords}
    \cup {<<JsonLine(JArr(<<r, bigRecord(1), bigRecord(3)>>))>> : r \in CsvRecords}

InitCsv == PickedFrom(CsvTexts, {<<>>})

NextCsv ==
  \/ \E i \in 1..Len(loads) : onFileChangeResume(i)
  \/ \E v \in QueryInputs : onQueryChange(v)
  \/ \E checked \in BOOLEAN : onOnlyWrongChange(checked)
  \/ \E n \in PageSizes : onPageSizeChange(n)
  \/ exportWrongCSV

SpecCsv == InitCsv /\ [][NextCsv]_vars

RECURSIVE DoubleQuotes(_)
\* every double quote written twice
DoubleQuotes(s) ==
  IF s = <<>> THEN <<>>
  ELSE (IF Head(s) = "\"" THEN <<"\"", "\"">> ELSE <<Head(s)>>) \o DoubleQuotes(Tail(s))

\* the five values of a row as the exporter is given them
FieldValues(s) ==
  <<JsString(s.index),
    firstAudio(s),
    jsonSafe(stripThinking(s.prompt)),
    jsonSafe(stripThinking(s.prediction)),
    jsonSafe(stripThinking(s.label))>>

QuotedRow(s) ==
  Join([k \in 1..5 |-> Quote \o DoubleQuotes(FieldValues(s)[k]) \o Quote], Comma)

\* C3: every data field of the exported CSV is wrapped in double quotes, with
\* each double quote of its value doubled, for all five fields.
C3_CsvQuotesDoubled ==
  csv # <<>> =>
    LET wrong == SelectSeq(samples, IsWrong)
    IN csv = Join(<<csvHeader>> \o [k \in 1..Len(wrong) |-> QuotedRow(wrong[k])], NewLine)

RECURSIVE SplitLines(_)
\* the rows of a CSV text: its pieces between raw newlines
SplitLines(s) ==
  LET i == IndexOf(s, NewLine)
  IN IF i < 0 THEN <<s>> ELSE <<Take(s, i)>> \o SplitLines(Drop(s, i + 1))

StartsWith(s, pre) == Len(s) >= Len(pre) /\ Take(s, Len(pre)) = pre

\* C4: the exported CSV is the header row and exactly one row per sample that
\* is not correct, in sample order, under any view state: no field breaks a row.
C4_CsvOneRowPerWrongSample ==
  csv # <<>> =>
    LET wrong == SelectSeq(samples, IsWrong)
        rows == SplitLines(csv)
    IN /\ Len(rows) = 1 + Len(wrong)
       /\ rows[1] = csvHeader
       /\ \A k \in 1..Len(wrong) :
            StartsWith(rows[k + 1], Quote \o JsString(wrong[k].index) \o Quote \o Comma)

====
